---- MODULE Spec2Model ----
(***************************************************************************)
(* recipe-app-api: the recipe serializers (app/recipe/serializers.py) and  *)
(* the request handlers that call them, over a relational store.           *)
(*                                                                         *)
(* A request is executed as a sequence of store statements.  Each handler  *)
(* is a small-step machine over a frame (the handler's locals and its      *)
(* position, named by the source line of the statement it is about to      *)
(* run) and the store.  Spec, SpecAccess and SpecList run one request at   *)
(* a time, each to its end in one action; SpecConc and SpecRace interleave *)
(* the statements of two workers.  hist records what each running write    *)
(* has done to the store, for the properties that speak of it.             *)
(***************************************************************************)
EXTENDS Integers, Sequences, FiniteSets, TLC

VARIABLES db, proc, hist

vars == <<db, proc, hist>>

(* ------------------------------ bounds -------------------------------- *)

\* Longest tags / ingredient list a payload carries.
MaxLen == 2
\* Recipe ids handed out by the store's sequence.
MaxRecipeId == 1
\* Tag (and Ingredient) ids handed out by the store's sequence.
MaxChildId == 2

\* Recipe ids handed out under SpecAccess, SpecList and SpecConc.
AccessRecipes == 2

Users == {"u1", "u2"}
Names == {"a", "b"}
Titles == {"t1", "t2"}
Workers == {"w1", "w2"}

(* ------------------------------ values -------------------------------- *)

EmptyFn == [k \in {} |-> k]

\* A child descriptor {name: ...} as TagSerializer / IngredientSerializer
\* validate it: id is read-only, name is the one writable field.
Descriptors == {[name |-> n] : n \in Names}

DescriptorLists == UNION {[1..n -> Descriptors] : n \in 0..MaxLen}

\* The value of a local that is either None or a list.
NoneValue == [isNone |-> TRUE, list |-> <<>>]

ListValue(l) == [isNone |-> FALSE, list |-> l]

NoInstance == [id |-> 0, user |-> "", title |-> ""]

NoReq == [route |-> "", method |-> "", user |-> "", id |-> 0,
          data |-> EmptyFn, query |-> EmptyFn]

IdleFrame == [pc |-> "idle", req |-> NoReq, status |-> 0, body |-> <<>>,
              instance |-> NoInstance, validated_data |-> EmptyFn,
              tags |-> NoneValue, ingredient |-> NoneValue, obj |-> 0]

\* dict.pop(key, default)
Pop(d, key, default) == IF key \in DOMAIN d THEN ListValue(d[key]) ELSE default

Without(d, key) == [k \in DOMAIN d \ {key} |-> d[k]]

SeqToSet(s) == {s[i] : i \in DOMAIN s}

(* ------------------------------- store -------------------------------- *)

\* Tables Recipe, Tag, Ingredient; the many-to-many tables recipe_tags and
\* recipe_ingredient hold <<recipe id, child id>> rows; seq holds the last id
\* each table's sequence handed out.
EmptyDb == [Recipe |-> {}, Tag |-> {}, Ingredient |-> {},
            recipe_tags |-> {}, recipe_ingredient |-> {},
            seq |-> [Recipe |-> 0, Tag |-> 0, Ingredient |-> 0]]

Through(model) == IF model = "Tag" THEN "recipe_tags" ELSE "recipe_ingredient"

\* The store's uniqueness constraint on (user, name) of Tag and Ingredient.
UniqueViolation(d, model, user, name) ==
    \E o \in d[model] : o.user = user /\ o.name = name

\* A lookup by name alone, whoever owns the record.
objects_get_by_name(d, model, user, name) ==
    LET found == {o \in d[model] : o.name = name}
    IN  IF found = {} THEN [exc |-> "DoesNotExist", id |-> 0]
        ELSE [exc |-> "", id |-> (CHOOSE o \in found : \A p \in found : o.id <= p.id).id]

\* Manager.get(user=..., name=...)
objects_get(d, model, user, name) ==
    LET found == {o \in d[model] : o.user = user /\ o.name = name}
    IN  IF found = {} THEN [exc |-> "DoesNotExist", id |-> 0]
        ELSE IF Cardinality(found) > 1
             THEN [exc |-> "MultipleObjectsReturned", id |-> 0]
             ELSE [exc |-> "", id |-> (CHOOSE o \in found : TRUE).id]

\* Manager.create(user=..., name=...): an INSERT taking the next id.
objects_create(d, model, user, name) ==
    IF UniqueViolation(d, model, user, name)
    THEN [exc |-> "IntegrityError", id |-> 0, db |-> d]
    ELSE LET id == d.seq[model] + 1
         IN  [exc |-> "", id |-> id,
              db |-> [d EXCEPT ![model] = @ \cup {[id |-> id, user |-> user, name |-> name]},
                               !.seq[model] = id]]

\* recipe.<field>.add(obj): an INSERT into the many-to-many table unless the
\* row is there; both foreign keys must point at stored rows.
m2m_add(d, model, rid, cid) ==
    IF (\E r \in d.Recipe : r.id = rid) /\ (\E o \in d[model] : o.id = cid)
    THEN [exc |-> "", db |-> [d EXCEPT ![Through(model)] = @ \cup {<<rid, cid>>}]]
    ELSE [exc |-> "IntegrityError", db |-> d]

\* A clear() that deletes the rows of every recipe.
m2m_clear_every_recipe(d, model, rid) == [d EXCEPT ![Through(model)] = {}]

\* A clear() that deletes nothing.
m2m_clear_nothing(d, model, rid) == d

\* recipe.<field>.clear(): DELETE the recipe's rows of the many-to-many table.
m2m_clear(d, model, rid) ==
    [d EXCEPT ![Through(model)] = {row \in @ : row[1] # rid}]

\* The rows of recipe rid in a many-to-many table.
Rows(d, model, rid) == {row \in d[Through(model)] : row[1] = rid}

\* The children a recipe is associated with.
Children(d, model, rid) ==
    {o \in d[model] : <<rid, o.id>> \in d[Through(model)]}

(* --------------------------- frame helpers ---------------------------- *)

\* The handler returns: its locals die, the response is kept.
Return(f, status, body) ==
    [f EXCEPT !.pc = "done", !.status = status, !.body = body,
              !.validated_data = EmptyFn, !.tags = NoneValue,
              !.ingredient = NoneValue, !.obj = 0]

\* An exception no handler catches: the request ends as a server error, and
\* every statement already run stays committed (autocommit).
Raise(f, d) == [f |-> Return(f, 500, <<>>), db |-> d]

Goto(f, d, pc) == [f |-> [f EXCEPT !.pc = pc], db |-> d]

(* ------------------- RecipeSerializer (serializers.py) ---------------- *)

\* The declared fields with user among them.
Meta_fields_with_user ==
    {"id", "user", "title", "time_minutes", "price", "link", "tags", "ingredient"}

Meta_fields == {"id", "title", "time_minutes", "price", "link", "tags", "ingredient"}

Meta_read_only_fields == {"id"}

\* Serializer validation keeps the declared writable fields of the payload
\* and drops every other key.
to_internal_value(data) ==
    [k \in DOMAIN data \cap (Meta_fields \ Meta_read_only_fields) |-> data[k]]

\* QuerySet.create(user=auth_user, **descriptor) in the place of
\* get_or_create: no lookup, and an IntegrityError is raised.
create_only(f, d, model, field, stmt, pcCreate, pcReget, pcAdd) ==
    LET c == objects_create(d, model, f.req.user, Head(f[field].list).name)
    IN  IF c.exc = "" THEN Goto([f EXCEPT !.obj = c.id], c.db, pcAdd)
        ELSE Raise(f, d)

\* A get_or_create that raises the IntegrityError of its INSERT without
\* looking the record up again.
get_or_create_no_retry(f, d, model, field, stmt, pcCreate, pcReget, pcAdd) ==
    LET auth_user == f.req.user
        name == Head(f[field].list).name
    IN  CASE stmt = "get" ->
               LET g == objects_get(d, model, auth_user, name)
               IN  IF g.exc = "" THEN Goto([f EXCEPT !.obj = g.id], d, pcAdd)
                   ELSE IF g.exc = "DoesNotExist" THEN Goto(f, d, pcCreate)
                   ELSE Raise(f, d)
          [] OTHER ->
               LET c == objects_create(d, model, auth_user, name)
               IN  IF c.exc = "" THEN Goto([f EXCEPT !.obj = c.id], c.db, pcAdd)
                   ELSE Raise(f, d)

\* QuerySet.get_or_create(user=auth_user, **descriptor), statement by
\* statement: "get" SELECT; on DoesNotExist "create" INSERT; on
\* IntegrityError "reget" SELECT again, and if that finds nothing the
\* IntegrityError is raised.
get_or_create(f, d, model, field, stmt, pcCreate, pcReget, pcAdd) ==
    LET auth_user == f.req.user
        name == Head(f[field].list).name
    IN  CASE stmt = "get" ->
               LET g == objects_get(d, model, auth_user, name)
               IN  IF g.exc = "" THEN Goto([f EXCEPT !.obj = g.id], d, pcAdd)
                   ELSE IF g.exc = "DoesNotExist" THEN Goto(f, d, pcCreate)
                   ELSE Raise(f, d)
          [] stmt = "create" ->
               LET c == objects_create(d, model, auth_user, name)
               IN  IF c.exc = "" THEN Goto([f EXCEPT !.obj = c.id], c.db, pcAdd)
                   ELSE Goto(f, d, pcReget)
          [] OTHER ->
               LET g == objects_get(d, model, auth_user, name)
               IN  IF g.exc = "" THEN Goto([f EXCEPT !.obj = g.id], d, pcAdd)
                   ELSE Raise(f, d)

\* Where the caller of _get_or_create_* goes on: create line 72 / 74,
\* update line 85 / 89.
AfterTags(f) == IF f.req.method = "POST" THEN "L72" ELSE "L85"

AfterIngredient(f) == IF f.req.method = "POST" THEN "L74" ELSE "L89"

\* _get_or_create_tags(self, tags, recipe), lines 43-51.
_get_or_create_tags(f, d) ==
    CASE f.pc = "L46" ->
           IF f.tags.list = <<>> THEN Goto(f, d, AfterTags(f)) ELSE Goto(f, d, "L47")
      [] f.pc = "L47" -> get_or_create(f, d, "Tag", "tags", "get", "L47c", "L47r", "L51")
      [] f.pc = "L47c" -> get_or_create(f, d, "Tag", "tags", "create", "L47c", "L47r", "L51")
      [] f.pc = "L47r" -> get_or_create(f, d, "Tag", "tags", "reget", "L47c", "L47r", "L51")
      [] OTHER ->
           LET a == m2m_add(d, "Tag", f.instance.id, f.obj)
           IN  IF a.exc = ""
               THEN Goto([f EXCEPT !.tags.list = Tail(@), !.obj = 0], a.db, "L46")
               ELSE Raise(f, d)

\* _get_or_create_ingredient(self, ingredients, recipe), lines 53-62.
_get_or_create_ingredient(f, d) ==
    CASE f.pc = "L56" ->
           IF f.ingredient.list = <<>> THEN Goto(f, d, AfterIngredient(f))
           ELSE Goto(f, d, "L57")
      [] f.pc = "L57" ->
           get_or_create(f, d, "Ingredient", "ingredient", "get", "L57c", "L57r", "L62")
      [] f.pc = "L57c" ->
           get_or_create(f, d, "Ingredient", "ingredient", "create", "L57c", "L57r", "L62")
      [] f.pc = "L57r" ->
           get_or_create(f, d, "Ingredient", "ingredient", "reget", "L57c", "L57r", "L62")
      [] OTHER ->
           LET a == m2m_add(d, "Ingredient", f.instance.id, f.obj)
           IN  IF a.exc = ""
               THEN Goto([f EXCEPT !.ingredient.list = Tail(@), !.obj = 0], a.db, "L56")
               ELSE Raise(f, d)

\* Model.save() of a loaded instance: UPDATE every column of the row with
\* the instance's id, or INSERT the row when no row has that id.
instance_save(d, instance) ==
    [d EXCEPT !.Recipe = {r \in @ : r.id # instance.id} \cup {instance}]

\* setattr(instance, attr, value) for every item of validated_data; the
\* model's columns are what save() writes.
setattrs(instance, validated_data) ==
    [k \in DOMAIN instance |->
        IF k \in DOMAIN validated_data THEN validated_data[k] ELSE instance[k]]

\* RecipeSerializer.create(self, validated_data), lines 64-74.
create(f, d) ==
    CASE f.pc = "L66" ->
           LET tags == Pop(f.validated_data, "tags", ListValue(<<>>))
               ingredient == Pop(f.validated_data, "ingredient", ListValue(<<>>))
               data == Without(Without(f.validated_data, "tags"), "ingredient")
               id == d.seq.Recipe + 1
               recipe == [id |-> id, user |-> data.user, title |-> data.title]
           IN  Goto([f EXCEPT !.tags = tags, !.ingredient = ingredient,
                              !.validated_data = data, !.instance = recipe],
                    [d EXCEPT !.Recipe = @ \cup {recipe}, !.seq.Recipe = id],
                    "L46")
      [] f.pc = "L72" -> Goto(f, d, "L56")
      [] OTHER -> [f |-> Return(f, 201, <<f.instance.id>>), db |-> d]

\* A default of [] for tags, as line 79 has for ingredient.
update_tags_default_list == ListValue(<<>>)

\* validated_data.pop('tags', None), line 78.
update_tags_default == NoneValue

\* validated_data.pop('ingredient', []), line 79.
update_ingredient_default == ListValue(<<>>)

\* RecipeSerializer.update(self, instance, validated_data), lines 76-93.
update(f, d) ==
    CASE f.pc = "L78" ->
           LET tags == Pop(f.validated_data, "tags", update_tags_default)
               ingredient == Pop(f.validated_data, "ingredient", update_ingredient_default)
               data == Without(Without(f.validated_data, "tags"), "ingredient")
           IN  Goto([f EXCEPT !.tags = tags, !.ingredient = ingredient,
                              !.validated_data = data],
                    d, IF ~tags.isNone THEN "L82" ELSE "L85")
      [] f.pc = "L82" ->
           Goto(f, m2m_clear(d, "Tag", f.instance.id), "L46")
      [] f.pc = "L85" ->
           Goto(f, d, IF ~f.ingredient.isNone THEN "L86" ELSE "L89")
      [] f.pc = "L86" ->
           Goto(f, m2m_clear(d, "Ingredient", f.instance.id), "L56")
      [] OTHER ->
           LET instance == setattrs(f.instance, f.validated_data)
           IN  [f |-> Return([f EXCEPT !.instance = instance], 200, <<instance.id>>),
                db |-> instance_save(d, instance)]

\* One statement of the serializer on behalf of frame f.
SerializerStep(f, d) ==
    IF f.pc \in {"L46", "L47", "L47c", "L47r", "L51"} THEN _get_or_create_tags(f, d)
    ELSE IF f.pc \in {"L56", "L57", "L57c", "L57r", "L62"} THEN _get_or_create_ingredient(f, d)
    ELSE IF f.pc \in {"L66", "L72", "L74"} THEN create(f, d)
    ELSE update(f, d)

Running(f) == f.pc \notin {"idle", "done"}

RECURSIVE Run(_, _)
\* The serializer run to its end with no other request in between.
Run(f, d) ==
    IF ~Running(f) THEN [f |-> f, db |-> d]
    ELSE LET r == SerializerStep(f, d) IN Run(r.f, r.db)

(* ------------------------- the recipe viewset ------------------------- *)

\* A lookup over every principal's rows.
get_object_any(d, table, user, id) == {o \in d[table] : o.id = id}

\* GenericAPIView.get_object over a queryset filtered by user=request.user:
\* the row with that id among the principal's own rows, or none.
get_object(d, table, user, id) == {o \in d[table] : o.user = user /\ o.id = id}

\* A write request arrives: PATCH /recipes/{id} looks the instance up among
\* the principal's recipes (404 when it finds none), validates the payload
\* and calls serializer.update; POST /recipes validates and calls
\* serializer.save(user=request.user), which calls serializer.create.
BeginWrite(req, d) ==
    LET f == [IdleFrame EXCEPT !.req = req]
    IN  IF req.method = "POST"
        THEN [f EXCEPT !.pc = "L66",
                       !.validated_data = ("user" :> req.user) @@ to_internal_value(req.data)]
        ELSE LET found == get_object(d, "Recipe", req.user, req.id)
             IN  IF found = {} THEN Return(f, 404, <<>>)
                 ELSE [f EXCEPT !.pc = "L78",
                                !.instance = CHOOSE o \in found : TRUE,
                                !.validated_data = to_internal_value(req.data)]

\* The recipe listing's queryset, spec section 4.3: one row per recipe and
\* matching row of each many-to-many table named by a filter (an SQL join),
\* restricted to the principal's recipes, ordered by descending id.
JoinCount(d, model, rid, ids) ==
    Cardinality({row \in d[Through(model)] : row[1] = rid /\ row[2] \in ids})

Repeat(x, n) == [i \in 1..n |-> x]

RECURSIVE JoinRows(_, _, _, _)
JoinRows(d, user, query, id) ==
    IF id = 0 THEN <<>>
    ELSE LET mine == \E r \in d.Recipe : r.id = id /\ r.user = user
             nt == IF "tags" \in DOMAIN query
                   THEN JoinCount(d, "Tag", id, SeqToSet(query["tags"])) ELSE 1
             ni == IF "ingredient" \in DOMAIN query
                   THEN JoinCount(d, "Ingredient", id, SeqToSet(query["ingredient"])) ELSE 1
         IN  (IF mine THEN Repeat(id, nt * ni) ELSE <<>>) \o JoinRows(d, user, query, id - 1)

\* No deduplication.
no_distinct(rows) == rows

RECURSIVE distinct(_)
\* QuerySet.distinct(): each row once, in the order of first appearance.
distinct(rows) ==
    IF rows = <<>> THEN <<>>
    ELSE LET rest == distinct(SubSeq(rows, 1, Len(rows) - 1))
             last == rows[Len(rows)]
         IN  IF last \in SeqToSet(rest) THEN rest ELSE Append(rest, last)

\* GET /recipes?tags=..&ingredient=..
recipe_list(f, d) ==
    [f |-> Return(f, 200, distinct(JoinRows(d, f.req.user, f.req.query, d.seq.Recipe))),
     db |-> d]

\* GET /recipes/{id}
recipe_retrieve(f, d) ==
    LET found == get_object(d, "Recipe", f.req.user, f.req.id)
    IN  IF found = {} THEN [f |-> Return(f, 404, <<>>), db |-> d]
        ELSE [f |-> Return(f, 200, <<f.req.id>>), db |-> d]

\* DELETE /recipes/{id}: the row goes, and with it its rows of the
\* many-to-many tables; the tags and ingredients stay.
recipe_destroy(f, d) ==
    LET found == get_object(d, "Recipe", f.req.user, f.req.id)
    IN  IF found = {} THEN [f |-> Return(f, 404, <<>>), db |-> d]
        ELSE [f |-> Return(f, 204, <<>>),
              db |-> [d EXCEPT !.Recipe = @ \ found,
                               !.recipe_tags = {row \in @ : row[1] # f.req.id},
                               !.recipe_ingredient = {row \in @ : row[1] # f.req.id}]]

(* ----------------- the tag and the ingredient viewsets ---------------- *)

Model(route) == IF route = "tag" THEN "Tag" ELSE "Ingredient"

NameOrder == <<"a", "b">>

NameRank(n) == CHOOSE i \in DOMAIN NameOrder : NameOrder[i] = n

RECURSIVE ByNameDesc(_)
\* order_by('-name')
ByNameDesc(S) ==
    IF S = {} THEN <<>>
    ELSE LET top == CHOOSE o \in S : \A p \in S : NameRank(p.name) <= NameRank(o.name)
         IN  <<top.id>> \o ByNameDesc(S \ {top})

\* GET /tags, GET /ingredients
child_list(f, d) ==
    [f |-> Return(f, 200, ByNameDesc({o \in d[Model(f.req.route)] : o.user = f.req.user})),
     db |-> d]

\* GET /tags/{id}, GET /ingredients/{id}
child_retrieve(f, d) ==
    LET found == get_object(d, Model(f.req.route), f.req.user, f.req.id)
    IN  IF found = {} THEN [f |-> Return(f, 404, <<>>), db |-> d]
        ELSE [f |-> Return(f, 200, <<f.req.id>>), db |-> d]

\* PATCH /tags/{id}, PATCH /ingredients/{id} with a name: a rename, refused
\* as a validation error when the principal has another record of that name.
child_update(f, d) ==
    LET model == Model(f.req.route)
        found == get_object(d, model, f.req.user, f.req.id)
        old == CHOOSE o \in found : TRUE
        name == f.req.data["name"]
    IN  IF found = {} THEN [f |-> Return(f, 404, <<>>), db |-> d]
        ELSE IF name # old.name /\ UniqueViolation(d, model, f.req.user, name)
        THEN [f |-> Return(f, 400, <<>>), db |-> d]
        ELSE [f |-> Return(f, 200, <<f.req.id>>),
              db |-> [d EXCEPT ![model] = (@ \ found) \cup {[old EXCEPT !.name = name]}]]

\* DELETE /tags/{id}, DELETE /ingredients/{id}: the row goes, and with it
\* its rows of the many-to-many table.
child_destroy(f, d) ==
    LET model == Model(f.req.route)
        found == get_object(d, model, f.req.user, f.req.id)
    IN  IF found = {} THEN [f |-> Return(f, 404, <<>>), db |-> d]
        ELSE [f |-> Return(f, 204, <<>>),
              db |-> [d EXCEPT ![model] = @ \ found,
                               ![Through(model)] = {row \in @ : row[2] # f.req.id}]]

(* ------------------------------ requests ------------------------------ *)

Opt(k, S) == {EmptyFn} \cup {k :> v : v \in S}

\* Payloads of POST /recipes: a title, and optionally tags and ingredient.
CreateData ==
    {("title" :> t) @@ a @@ b :
        t \in Titles, a \in Opt("tags", DescriptorLists),
        b \in Opt("ingredient", DescriptorLists)}

\* Payloads of PATCH /recipes/{id}: optionally a title or a user key, and
\* optionally tags and ingredient.
UpdateData ==
    {s @@ a @@ b :
        s \in Opt("title", Titles) \cup Opt("user", Users),
        a \in Opt("tags", DescriptorLists), b \in Opt("ingredient", DescriptorLists)}

Request(route, method, user, id, data, query) ==
    [route |-> route, method |-> method, user |-> user, id |-> id,
     data |-> data, query |-> query]

\* The names of a payload's list that the principal has no record of.
NewNames(d, model, user, data, key) ==
    IF key \in DOMAIN data
    THEN {x.name : x \in SeqToSet(data[key])} \ {o.name : o \in {o \in d[model] : o.user = user}}
    ELSE {}

\* The store's sequences are capped: a write is taken only while the ids it
\* needs are left.
IdsLeft(d, user, data) ==
    /\ d.seq.Tag + Cardinality(NewNames(d, "Tag", user, data, "tags")) <= MaxChildId
    /\ d.seq.Ingredient + Cardinality(NewNames(d, "Ingredient", user, data, "ingredient")) <= MaxChildId

\* Query strings of GET /recipes: optionally tags and ingredient, each a
\* comma-separated list of ids.
IdLists == UNION {[1..n -> 1..MaxChildId] : n \in 0..MaxLen}

ListQueries == {a @@ b : a \in Opt("tags", IdLists), b \in Opt("ingredient", IdLists)}

Routes == {"tag", "ingredient"}

(* ---------------- one request at a time: the actions ------------------ *)

Client == "w1"

Idle == proc[Client].pc = "idle"

Frame(req) == [IdleFrame EXCEPT !.req = req]

\* The client's worker takes a request only when idle, and runs it to its
\* response.
Respond(r) ==
    /\ proc' = [proc EXCEPT ![Client] = r.f]
    /\ db' = r.db
    /\ UNCHANGED hist

\* POST /recipes with a payload of datas, while the recipe sequence is below cap.
PostRecipe(datas, cap) ==
    \E user \in Users, data \in datas :
        /\ Idle
        /\ db.seq.Recipe < cap
        /\ IdsLeft(db, user, data)
        /\ Respond(Run(BeginWrite(Request("recipe", "POST", user, 0, data, EmptyFn), db), db))

\* PATCH /recipes/{id} with a payload of datas.
PatchRecipe(datas, cap) ==
    \E user \in Users, id \in 1..cap, data \in datas :
        /\ Idle
        /\ IdsLeft(db, user, data)
        /\ Respond(Run(BeginWrite(Request("recipe", "PATCH", user, id, data, EmptyFn), db), db))

\* GET /recipes with a query string of queries.
ListRecipes(queries) ==
    \E user \in Users, query \in queries :
        /\ Idle
        /\ Respond(recipe_list(Frame(Request("recipe", "LIST", user, 0, EmptyFn, query)), db))

\* The response is sent and the worker is idle again.
Finish ==
    /\ proc[Client].pc = "done"
    /\ proc' = [proc EXCEPT ![Client] = IdleFrame]
    /\ UNCHANGED <<db, hist>>

\* What a running write has done to the store so far: the rows of the
\* many-to-many tables it deleted, the records it inserted, and the
\* IntegrityErrors get_or_create caught for it; peers counts the requests of
\* other workers that ran while it ran: 0, 1, or 2 for more than one.
NoHist == [cleared |-> {}, created |-> {}, caught |-> 0, peers |-> 0]

Init ==
    /\ db = EmptyDb
    /\ proc = [w \in Workers |-> IdleFrame]
    /\ hist = [w \in Workers |-> NoHist]

(* ------------- Spec: recipe writes, one request at a time ------------- *)

RecipeCreate == PostRecipe(CreateData, MaxRecipeId)

RecipeUpdate == PatchRecipe(UpdateData, MaxRecipeId)

Next ==
    \/ RecipeCreate
    \/ RecipeUpdate
    \/ Finish

Spec == Init /\ [][Next]_vars

(* --------- SpecAccess: every route, two principals, small payloads ----- *)

\* A create that gives the recipe one tag and one ingredient.
AccessCreateData ==
    {("title" :> "t1") @@ ("tags" :> <<x>>) @@ ("ingredient" :> <<x>>) : x \in Descriptors}

\* An update that retitles the recipe and empties its tags.
AccessUpdateData == {("title" :> "t2") @@ ("tags" :> <<>>)}

AccessCreate == PostRecipe(AccessCreateData, AccessRecipes)

AccessUpdate == PatchRecipe(AccessUpdateData, AccessRecipes)

AccessList == ListRecipes({EmptyFn})

RecipeRetrieve ==
    \E user \in Users, id \in 1..AccessRecipes :
        /\ Idle
        /\ Respond(recipe_retrieve(Frame(Request("recipe", "GET", user, id, EmptyFn, EmptyFn)), db))

RecipeDelete ==
    \E user \in Users, id \in 1..AccessRecipes :
        /\ Idle
        /\ Respond(recipe_destroy(Frame(Request("recipe", "DELETE", user, id, EmptyFn, EmptyFn)), db))

ChildList ==
    \E user \in Users, route \in Routes :
        /\ Idle
        /\ Respond(child_list(Frame(Request(route, "LIST", user, 0, EmptyFn, EmptyFn)), db))

ChildRetrieve ==
    \E user \in Users, route \in Routes, id \in 1..MaxChildId :
        /\ Idle
        /\ Respond(child_retrieve(Frame(Request(route, "GET", user, id, EmptyFn, EmptyFn)), db))

ChildUpdate ==
    \E user \in Users, route \in Routes, id \in 1..MaxChildId, name \in Names :
        /\ Idle
        /\ Respond(child_update(Frame(Request(route, "PATCH", user, id, "name" :> name, EmptyFn)), db))

ChildDelete ==
    \E user \in Users, route \in Routes, id \in 1..MaxChildId :
        /\ Idle
        /\ Respond(child_destroy(Frame(Request(route, "DELETE", user, id, EmptyFn, EmptyFn)), db))

NextAccess ==
    \/ AccessCreate
    \/ AccessUpdate
    \/ AccessList
    \/ RecipeRetrieve
    \/ RecipeDelete
    \/ ChildList
    \/ ChildRetrieve
    \/ ChildUpdate
    \/ ChildDelete
    \/ Finish

SpecAccess == Init /\ [][NextAccess]_vars

(* ------------- SpecList: recipes are created, then listed ------------- *)

NoRepeat(l) == \A i, j \in DOMAIN l : l[i] = l[j] => i = j

\* Creates that give a recipe no, one or two tags and no or one ingredient.
ListCreateData ==
    {("title" :> "t1") @@ a @@ b :
        a \in Opt("tags", {l \in DescriptorLists : l # <<>> /\ NoRepeat(l)}),
        b \in Opt("ingredient", {l \in DescriptorLists : Len(l) = 1})}

ListCreate == PostRecipe(ListCreateData, AccessRecipes)

RecipeList == ListRecipes(ListQueries)

NextList ==
    \/ ListCreate
    \/ RecipeList
    \/ Finish

SpecList == Init /\ [][NextList]_vars

(* ------ SpecConc: two workers, the statements of writes interleave ----- *)

ConcUser == "u1"

Tagged(model, S) == {<<model, x>> : x \in S}

\* The effect of one statement, from store d to store e, added to history h.
Record(h, f, d, e) ==
    [cleared |-> h.cleared \cup Tagged("Tag", d.recipe_tags \ e.recipe_tags)
                           \cup Tagged("Ingredient", d.recipe_ingredient \ e.recipe_ingredient),
     created |-> h.created \cup Tagged("Tag", e.Tag \ d.Tag)
                           \cup Tagged("Ingredient", e.Ingredient \ d.Ingredient),
     caught |-> h.caught + (IF f.pc \in {"L47r", "L57r"} THEN 1 ELSE 0),
     peers |-> h.peers]

\* Worker w begins a request: its history starts, and the requests that are
\* running have one more peer.
Begun(w) ==
    [v \in Workers |->
        IF v = w
        THEN [NoHist EXCEPT !.peers = Cardinality({u \in Workers \ {w} : Running(proc[u])})]
        ELSE IF Running(proc[v]) /\ hist[v].peers < 2
             THEN [hist[v] EXCEPT !.peers = @ + 1]
             ELSE hist[v]]

\* The requests the two workers hold ran at the same time, and no other
\* request ran while either did.
Concurrent == \A w \in Workers : hist[w].peers = 1

\* An idle worker takes POST /recipes: validation, then serializer.create.
ConcPost(w, datas, cap) ==
    \E data \in datas :
        /\ proc[w].pc = "idle"
        /\ db.seq.Recipe + Cardinality({v \in Workers : proc[v].pc = "L66"}) < cap
        /\ IdsLeft(db, ConcUser, data)
        /\ proc' = [proc EXCEPT ![w] = BeginWrite(Request("recipe", "POST", ConcUser, 0, data, EmptyFn), db)]
        /\ hist' = Begun(w)
        /\ UNCHANGED db

\* An idle worker takes PATCH /recipes/{id}: get_object, validation, then
\* serializer.update.
ConcPatch(w, datas, cap) ==
    \E id \in 1..cap, data \in datas :
        /\ proc[w].pc = "idle"
        /\ IdsLeft(db, ConcUser, data)
        /\ proc' = [proc EXCEPT ![w] = BeginWrite(Request("recipe", "PATCH", ConcUser, id, data, EmptyFn), db)]
        /\ hist' = Begun(w)
        /\ UNCHANGED db

\* A worker runs the next statement of its serializer.
ConcStep(w) ==
    /\ Running(proc[w])
    /\ LET r == SerializerStep(proc[w], db)
       IN  /\ proc' = [proc EXCEPT ![w] = r.f]
           /\ db' = r.db
           /\ hist' = [hist EXCEPT ![w] = Record(@, proc[w], db, r.db)]

\* A worker's response is sent.
ConcFinish(w) ==
    /\ proc[w].pc = "done"
    /\ proc' = [proc EXCEPT ![w] = IdleFrame]
    /\ hist' = [hist EXCEPT ![w] = NoHist]
    /\ UNCHANGED db

\* An idle worker takes DELETE /tags/{id} or DELETE /ingredients/{id}.
ConcChildDelete(w, routes) ==
    \E route \in routes, id \in 1..MaxChildId :
        /\ proc[w].pc = "idle"
        /\ LET r == child_destroy(Frame(Request(route, "DELETE", ConcUser, id, EmptyFn, EmptyFn)), db)
           IN  /\ r.f.status = 204
               /\ proc' = [proc EXCEPT ![w] = r.f]
               /\ db' = r.db
        /\ hist' = Begun(w)

\* Creates and updates that name the one tag or the one ingredient "a".
ConcCreateData == {("title" :> "t1") @@ (key :> <<[name |-> "a"]>>) : key \in {"tags", "ingredient"}}

ConcUpdateData == {key :> <<[name |-> "a"]>> : key \in {"tags", "ingredient"}}

ConcCreate(w) == ConcPost(w, ConcCreateData, AccessRecipes)

ConcUpdate(w) == ConcPatch(w, ConcUpdateData, AccessRecipes)

NextConc ==
    \E w \in Workers :
        \/ ConcCreate(w)
        \/ ConcUpdate(w)
        \/ ConcStep(w)
        \/ ConcFinish(w)

SpecConc == Init /\ [][NextConc]_vars

(* ---- SpecRace: writes of tags to one recipe, while tags are deleted ---- *)

RaceCreateData == {("title" :> "t1") @@ ("tags" :> <<x>>) : x \in Descriptors}

RaceUpdateData == {"tags" :> <<x>> : x \in Descriptors}

RaceCreate(w) == ConcPost(w, RaceCreateData, MaxRecipeId)

RaceUpdate(w) == ConcPatch(w, RaceUpdateData, MaxRecipeId)

TagDelete(w) == ConcChildDelete(w, {"tag"})

NextRace ==
    \E w \in Workers :
        \/ RaceCreate(w)
        \/ RaceUpdate(w)
        \/ ConcStep(w)
        \/ ConcFinish(w)
        \/ TagDelete(w)

SpecRace == Init /\ [][NextRace]_vars

(* ------------------------------ claims -------------------------------- *)

Keys == {"tags", "ingredient"}

ModelOf(key) == IF key = "tags" THEN "Tag" ELSE "Ingredient"

\* The names a payload submits under key.
Submitted(data, key) == {x.name : x \in SeqToSet(data[key])}

\* The principal's records of a model.
Owned(d, model, user) == {o \in d[model] : o.user = user}

\* Frame f holds the response to a recipe write that reached the serializer.
Wrote(f, method) ==
    /\ f.pc = "done"
    /\ f.req.route = "recipe"
    /\ f.req.method = method
    /\ f.status # 404

\* C1: after an update by P of P's recipe R, for each of tags and ingredient
\* that the payload carries, R is associated with exactly P's records of the
\* submitted names, one per name: what was associated before and is not
\* named is gone, and an empty list leaves nothing.
C1_Replacement ==
    LET f == proc[Client]
    IN  Wrote(f, "PATCH") =>
          /\ f.status = 200
          /\ \A key \in Keys \cap DOMAIN f.req.data :
                LET names == Submitted(f.req.data, key)
                    mine == Owned(db, ModelOf(key), f.req.user)
                IN  /\ Children(db, ModelOf(key), f.req.id) = {o \in mine : o.name \in names}
                    /\ \A n \in names : Cardinality({o \in mine : o.name = n}) = 1

\* An update has replaced the tags {a, b} of a recipe by {b}: the tag a is
\* still stored and no longer associated.
C1_Witness ==
    LET f == proc[Client]
    IN  /\ Wrote(f, "PATCH")
        /\ "tags" \in DOMAIN f.req.data
        /\ Submitted(f.req.data, "tags") = {"b"}
        /\ \E o \in Owned(db, "Tag", f.req.user) : o.name = "a"
        /\ {o.name : o \in Children(db, "Tag", f.req.id)} = {"b"}

\* The step is the response to an update of an own recipe whose payload has
\* no key `key`.
UpdateOmitting(key) ==
    /\ proc[Client].pc = "idle"
    /\ Wrote(proc'[Client], "PATCH")
    /\ proc'[Client].status = 200
    /\ key \notin DOMAIN proc'[Client].req.data

\* C2: an update whose payload has no ingredient key leaves the recipe's
\* ingredient associations as they were.
C2_IngredientOmitted ==
    [][UpdateOmitting("ingredient") =>
          Rows(db', "Ingredient", proc'[Client].req.id)
              = Rows(db, "Ingredient", proc'[Client].req.id)]_vars

\* C3: an update whose payload has no tags key leaves the recipe's tag
\* associations as they were, whatever else the payload carries.
C3_TagsOmitted ==
    [][UpdateOmitting("tags") =>
          Rows(db', "Tag", proc'[Client].req.id)
              = Rows(db, "Tag", proc'[Client].req.id)]_vars

\* An update without a tags key, carrying other fields, has answered 200 and
\* the recipe has tags.
C3_Witness ==
    LET f == proc[Client]
    IN  /\ Wrote(f, "PATCH")
        /\ f.status = 200
        /\ "tags" \notin DOMAIN f.req.data
        /\ DOMAIN f.req.data # {}
        /\ Children(db, "Tag", f.req.id) # {}

\* No two records of a model have the same (user, name).
UniquePerOwner(d) ==
    \A model \in {"Tag", "Ingredient"} :
        \A o1, o2 \in d[model] : (o1.user = o2.user /\ o1.name = o2.name) => o1 = o2

\* The step is the response to a recipe write; for every submitted name the
\* principal had a record of, that record is kept as it was and is
\* associated with the written recipe, and the principal's records grow by
\* exactly the names it had no record of.
ReuseStep ==
    LET f == proc'[Client]
    IN  (proc[Client].pc = "idle" /\ (Wrote(f, "POST") \/ Wrote(f, "PATCH"))) =>
          /\ f.status \in {200, 201}
          /\ \A key \in Keys \cap DOMAIN f.req.data :
                LET model == ModelOf(key)
                    had == {o \in Owned(db, model, f.req.user) :
                               o.name \in Submitted(f.req.data, key)}
                IN  /\ had \subseteq Children(db', model, f.instance.id)
                    /\ Cardinality(Owned(db', model, f.req.user))
                         = Cardinality(Owned(db, model, f.req.user))
                           + Cardinality(NewNames(db, model, f.req.user, f.req.data, key))

\* C4: a write that names a tag or ingredient the principal already owns
\* associates the stored record and creates none, so the principal's count
\* grows only by the new names; and no two records have the same (user, name).
C4_Reuse == [](UniquePerOwner(db)) /\ [][ReuseStep]_vars

\* A write has named a tag that was stored before the written recipe's
\* other tag was created: the older record is associated.
C4_Witness ==
    LET f == proc[Client]
    IN  /\ Wrote(f, "PATCH")
        /\ f.status = 200
        /\ "tags" \in DOMAIN f.req.data
        /\ f.req.data["tags"] = <<[name |-> "b"], [name |-> "a"]>>
        /\ \E o \in Children(db, "Tag", f.req.id) : o.name = "a" /\ o.id = 1
        /\ \E o \in Children(db, "Tag", f.req.id) : o.name = "b" /\ o.id = 2

\* The names a list carries more than once.
Repeated(l) == {l[i].name : i \in {i \in DOMAIN l : \E j \in DOMAIN l : j # i /\ l[j] = l[i]}}

\* C5: a write that submits a name more than once in one list succeeds, the
\* principal has exactly one record of that name, and the recipe is
\* associated with exactly one record of that name.
C5_Idempotent ==
    LET f == proc[Client]
    IN  (Wrote(f, "POST") \/ Wrote(f, "PATCH")) =>
          \A key \in Keys \cap DOMAIN f.req.data :
             \A n \in Repeated(f.req.data[key]) :
                /\ f.status \in {200, 201}
                /\ Cardinality({o \in Owned(db, ModelOf(key), f.req.user) : o.name = n}) = 1
                /\ Cardinality({o \in Children(db, ModelOf(key), f.instance.id) : o.name = n}) = 1

\* A create has submitted the ingredient a twice.
C5_Witness ==
    LET f == proc[Client]
    IN  /\ Wrote(f, "POST")
        /\ f.status = 201
        /\ "ingredient" \in DOMAIN f.req.data
        /\ f.req.data["ingredient"] = <<[name |-> "a"], [name |-> "a"]>>
        /\ Cardinality(Children(db, "Ingredient", f.instance.id)) = 1

\* No step changes the owner of a stored recipe.
OwnerKept ==
    \A r \in db.Recipe : \A r2 \in db'.Recipe : r2.id = r.id => r2.user = r.user

Table(route) == IF route = "recipe" THEN "Recipe" ELSE Model(route)

\* The step is the response to a request: one addressed to an id that is
\* not a record of the principal's (another principal's, or nobody's) is
\* answered 404 and changes nothing in the store; a listing holds only ids
\* of the principal's own records.
IsolationStep ==
    LET f == proc'[Client]
        table == Table(f.req.route)
    IN  (proc[Client].pc = "idle" /\ f.pc = "done") =>
          /\ (/\ f.req.method \in {"GET", "PATCH", "DELETE"}
              /\ ~\E o \in db[table] : o.id = f.req.id /\ o.user = f.req.user)
                => (f.status = 404 /\ db' = db)
          /\ f.req.method = "LIST" =>
                \A id \in SeqToSet(f.body) :
                    \E o \in db[table] : o.id = id /\ o.user = f.req.user

\* C6: a principal's listing never holds another principal's recipe, tag or
\* ingredient, and a retrieve, update or delete addressed to one is answered
\* not-found, as for an id nobody has, and leaves the store unchanged.
C6_Isolation == [][IsolationStep]_vars

\* A principal has asked to delete a tag that another principal owns and
\* that a recipe is associated with: 404, and the tag is there.
C6_Witness ==
    LET f == proc[Client]
    IN  /\ f.pc = "done"
        /\ f.req.route = "tag"
        /\ f.req.method = "DELETE"
        /\ f.status = 404
        /\ \E o \in db.Tag : /\ o.id = f.req.id
                             /\ o.user # f.req.user
                             /\ \E row \in db.recipe_tags : row[2] = o.id
        /\ \E o \in db.Tag : o.user = f.req.user

\* The recipes of a principal that a query selects.
Selected(d, user, query) ==
    {r.id : r \in {r \in d.Recipe :
        /\ r.user = user
        /\ "tags" \in DOMAIN query =>
              \E o \in Children(d, "Tag", r.id) : o.id \in SeqToSet(query["tags"])
        /\ "ingredient" \in DOMAIN query =>
              \E o \in Children(d, "Ingredient", r.id) : o.id \in SeqToSet(query["ingredient"])}}

\* C8: a listing by P holds exactly P's recipes that have a tag among the
\* tag ids given (when given) and an ingredient among the ingredient ids
\* given (when given), each once; with no filter, all of P's recipes.
C8_Filter ==
    LET f == proc[Client]
    IN  (f.pc = "done" /\ f.req.route = "recipe" /\ f.req.method = "LIST") =>
          /\ f.status = 200
          /\ SeqToSet(f.body) = Selected(db, f.req.user, f.req.query)
          /\ NoRepeat(f.body)

\* A listing filtered by two tag ids has answered with a recipe that has
\* both tags, once, and without another recipe of the principal's.
C8_Witness ==
    LET f == proc[Client]
    IN  /\ f.pc = "done" /\ f.req.route = "recipe" /\ f.req.method = "LIST"
        /\ "tags" \in DOMAIN f.req.query
        /\ Len(f.body) = 1
        /\ Cardinality(Children(db, "Tag", f.body[1]) \cap
                       {o \in db.Tag : o.id \in SeqToSet(f.req.query["tags"])}) = 2
        /\ \E r \in db.Recipe : r.user = f.req.user /\ r.id # f.body[1]

\* Frame f holds the response to a recipe create or update that reached the
\* serializer.
WroteRecipe(f) == Wrote(f, "POST") \/ Wrote(f, "PATCH")

\* Every row the write deleted from a many-to-many table is in the table,
\* unless the recipe or the child it joined has since been deleted, and no
\* record the write inserted is stored.
Undone(d, h) ==
    /\ \A c \in h.cleared :
          LET model == c[1]
              row == c[2]
          IN  ((\E r \in d.Recipe : r.id = row[1]) /\ (\E o \in d[model] : o.id = row[2]))
                 => row \in d[Through(model)]
    /\ \A c \in h.created : c[2] \notin d[c[1]]

\* C9: a recipe create or update that fails leaves the prior state
\* unchanged: the associations it cleared are there again and the tag and
\* ingredient records it created are not stored.
C9_NoPartialSuccess ==
    \A w \in Workers :
        (WroteRecipe(proc[w]) /\ proc[w].status = 500) => Undone(db, hist[w])

\* Both workers hold the response to a recipe write, the two writes ran at
\* the same time, and both payloads name n under key: both writes succeeded and both recipes are associated with
\* the principal's record of that name.
BothAssociated(key) ==
    LET f == proc["w1"]
        g == proc["w2"]
        model == ModelOf(key)
    IN  (/\ WroteRecipe(f) /\ WroteRecipe(g)
         /\ Concurrent
         /\ key \in DOMAIN f.req.data /\ key \in DOMAIN g.req.data) =>
          \A n \in Submitted(f.req.data, key) \cap Submitted(g.req.data, key) :
             /\ f.status \in {200, 201}
             /\ g.status \in {200, 201}
             /\ \E o \in Owned(db, model, ConcUser) :
                   /\ o.name = n
                   /\ o \in Children(db, model, f.instance.id)
                   /\ o \in Children(db, model, g.instance.id)

\* C10: however the statements of two writes by one principal interleave,
\* no state holds two tags or two ingredients with the same (user, name),
\* and when both writes have named the same name both recipes are
\* associated with the one record of that name.
C10_NoDuplicate ==
    /\ UniquePerOwner(db)
    /\ \A key \in Keys : BothAssociated(key)

\* Two writes to different recipes named the same unused tag name, both
\* looked it up before either created it, the second create was refused by
\* the uniqueness constraint, and both recipes are associated with the one
\* record.
C10_Witness ==
    LET f == proc["w1"]
        g == proc["w2"]
    IN  /\ WroteRecipe(f) /\ WroteRecipe(g)
        /\ "tags" \in DOMAIN f.req.data /\ "tags" \in DOMAIN g.req.data
        /\ f.instance.id # g.instance.id
        /\ Concurrent
        /\ hist["w1"].created = {} /\ hist["w1"].caught = 1
        /\ Cardinality(hist["w2"].created) = 1
        /\ Cardinality(db.Tag) = 1
        /\ Children(db, "Tag", f.instance.id) = db.Tag
        /\ Children(db, "Tag", g.instance.id) = db.Tag

\* A step of worker w's get_or_create after its lookup found nothing.  An
\* INSERT refused by the uniqueness constraint raises nothing and leads to
\* the second lookup; the second lookup either finds the principal's record
\* and leads to add() of it, or ends the request as a server error; and
\* add() after a second lookup associates the record with the recipe.
RetryStep(w) ==
    LET f == proc[w]
        g == proc'[w]
        tagside == f.pc \in {"L47c", "L47r", "L51"}
        model == IF tagside THEN "Tag" ELSE "Ingredient"
        field == IF tagside THEN "tags" ELSE "ingredient"
        found == {o \in Owned(db, model, f.req.user) : o.name = Head(f[field].list).name}
    IN  g # f =>
          /\ (f.pc \in {"L47c", "L57c"} /\ found # {}) =>
                /\ g.pc = (IF tagside THEN "L47r" ELSE "L57r")
                /\ g.status = 0
                /\ db' = db
          /\ (f.pc \in {"L47r", "L57r"} /\ found # {}) =>
                /\ g.pc = (IF tagside THEN "L51" ELSE "L62")
                /\ g.obj \in {o.id : o \in found}
                /\ g.status = 0
                /\ db' = db
          /\ (f.pc \in {"L47r", "L57r"} /\ found = {}) =>
                /\ g.pc = "done"
                /\ g.status = 500
                /\ db' = db
          /\ (/\ f.pc \in {"L51", "L62"}
              /\ hist[w].caught > 0
              /\ \E o \in db[model] : o.id = f.obj
              /\ \E r \in db.Recipe : r.id = f.instance.id) =>
                /\ <<f.instance.id, f.obj>> \in db'[Through(model)]
                /\ g.status = 0

\* The children a payload submits.
SubmittedCount(data) ==
    (IF "tags" \in DOMAIN data THEN Len(data["tags"]) ELSE 0)
    + (IF "ingredient" \in DOMAIN data THEN Len(data["ingredient"]) ELSE 0)

\* A write has looked up again at most once for each child it submits.
RetriedOncePerChild ==
    \A w \in Workers :
        proc[w].req.route = "recipe" => hist[w].caught <= SubmittedCount(proc[w].req.data)

\* C11: when the INSERT of a child hits the uniqueness constraint, the
\* lookup is run again exactly once: if it finds the record, the record is
\* associated and the write goes on without an error; only if it finds
\* nothing does the write fail, as a server error.
C11_RetryOnce == [](RetriedOncePerChild) /\ [][\A w \in Workers : RetryStep(w)]_vars

\* An update named a tag that another write inserted between its lookup
\* and its INSERT: the refused INSERT was followed by one more lookup, and
\* the update succeeded with the other write's record associated.
C11_Witness ==
    \E w \in Workers :
        LET f == proc[w]
        IN  /\ Wrote(f, "PATCH")
            /\ f.status = 200
            /\ hist[w].caught = 1
            /\ hist[w].created = {}
            /\ \E o \in Children(db, "Tag", f.req.id) :
                  o.name \in Submitted(f.req.data, "tags")

\* Every row of the many-to-many tables joins a recipe with a tag or an
\* ingredient of the recipe's owner.
OwnChildrenOnly(d) ==
    \A model \in {"Tag", "Ingredient"} :
        \A row \in d[Through(model)] :
            \E r \in d.Recipe : \E o \in d[model] :
                r.id = row[1] /\ o.id = row[2] /\ o.user = r.user

\* The step is the response to a recipe write by P: the records of every
\* other principal and their associations are as they were, and each name
\* P submitted is the name of a record of P that the recipe is associated
\* with.
OwnRecordsStep ==
    LET f == proc'[Client]
    IN  (proc[Client].pc = "idle" /\ WroteRecipe(f)) =>
          \A model \in {"Tag", "Ingredient"} :
             /\ {o \in db'[model] : o.user # f.req.user} = {o \in db[model] : o.user # f.req.user}
             /\ \A o \in db[model] :
                   o.user # f.req.user =>
                      {row \in db'[Through(model)] : row[2] = o.id}
                         = {row \in db[Through(model)] : row[2] = o.id}
             /\ \A key \in Keys \cap DOMAIN f.req.data :
                   model = ModelOf(key) =>
                      \A n \in Submitted(f.req.data, key) :
                         \E o \in Children(db', model, f.instance.id) :
                            o.name = n /\ o.user = f.req.user

\* C12: a recipe is associated only with tags and ingredients of its own
\* owner; a write by P that names X leaves another principal's record
\* named X as it was and unassociated with P's recipe, and associates a
\* record of P.
C12_OwnChildren == [](OwnChildrenOnly(db)) /\ [][OwnRecordsStep]_vars

\* A principal has created a recipe naming a tag name that another
\* principal has a tag of: the recipe has a tag of that name owned by its
\* creator, and the other principal's tag is stored with its own
\* association.
C12_Witness ==
    LET f == proc[Client]
    IN  /\ Wrote(f, "POST")
        /\ f.status = 201
        /\ \E o \in db.Tag, p \in db.Tag :
              /\ o.name = p.name
              /\ o.name \in Submitted(f.req.data, "tags")
              /\ o.user = f.req.user
              /\ p.user # f.req.user
              /\ o \in Children(db, "Tag", f.instance.id)
              /\ p \notin Children(db, "Tag", f.instance.id)
              /\ \E row \in db.recipe_tags : row[2] = p.id

\* The step is the response to a recipe write: every tag and ingredient
\* stored before is stored after with its id, owner and name, and the rows
\* of the many-to-many tables that belong to other recipes are as they were.
FrameStep ==
    LET f == proc'[Client]
    IN  (proc[Client].pc = "idle" /\ WroteRecipe(f)) =>
          \A model \in {"Tag", "Ingredient"} :
             /\ db[model] \subseteq db'[model]
             /\ {row \in db'[Through(model)] : row[1] # f.instance.id}
                   = {row \in db[Through(model)] : row[1] # f.instance.id}

\* C13: a recipe create or update deletes and renames no stored tag or
\* ingredient, so the stored records only grow, and it changes the
\* associations of no recipe but the one written.
C13_OnlyOwnAssociations == [][FrameStep]_vars

\* An update emptied the tags of a recipe: the tag it had is still stored,
\* and another recipe is still associated with that tag.
C13_Witness ==
    LET f == proc[Client]
    IN  /\ Wrote(f, "PATCH")
        /\ f.status = 200
        /\ "tags" \in DOMAIN f.req.data
        /\ Children(db, "Tag", f.req.id) = {}
        /\ \E o \in Owned(db, "Tag", f.req.user) :
              \E row \in db.recipe_tags : row[2] = o.id /\ row[1] # f.req.id

====
